---- MODULE Spec2Model ----
(***************************************************************************)
(* bgrep: a ring of buffer_num slots of buffer_size bytes is filled one    *)
(* chunk per RingBuffer::readFrom call from a StreamReader; a chunk that   *)
(* contains a target opens a match window, which RingBuffer::collectTo     *)
(* writes to a StreamCollector once the write cursor reaches the window's  *)
(* start, or when the reader is exhausted.                                 *)
(***************************************************************************)
EXTENDS Integers, Sequences, FiniteSets, TLC

\* ---------------------------------------------------------------- bounds
\* largest ring size (buffer_num) explored
MaxN == 6
\* largest slot size (buffer_size) explored
MaxS == 2
\* longest input stream explored, in bytes
MaxLen == 7

\* largest ring size and longest input stream explored for termination
MaxLiveN == 4
MaxLiveLen == 4

\* most FileReader::read calls explored
MaxFileReads == 6

\* ring and slot size of the self-test configuration, RingBuffer buffer(4, 4, &target)
TestBufNum == 4
TestBufSize == 4

\* ---------------------------------------------------------------- inputs
\* the bytes of the exhaustively enumerated input streams
Bytes == {"a", "b"}

\* values an uninitialised slot (new char[_buffer_size]) may hold
Garbage == {"a", "?"}

Rep(c, k) == [i \in 1..k |-> c]

\* every byte stream of at most MaxLen bytes
Streams == UNION {[1..k -> Bytes] : k \in 0..MaxLen}

\* the target lists given to Target::addTarget, in registration order
TargetLists ==
    { <<>>, << <<"b">> >>, << <<"a", "b">> >>, << <<"b", "b">>, <<"a", "b">> >> }

\* target.addTarget("ab") of the self-test
TestTargets == << <<"a", "b">> >>

AAAB == <<"a", "a", "a", "b">>

\* the five input streams of test()
TestInput1 ==
    Rep("0", 4) \o Rep("1", 4) \o Rep("2", 4) \o AAAB \o Rep("3", 4) \o Rep("b", 4)
    \o Rep("4", 4) \o Rep("c", 4) \o Rep("5", 4) \o AAAB \o Rep("6", 4) \o Rep("7", 4)
    \o Rep("8", 4)
TestInput2 ==
    Rep("0", 4) \o Rep("1", 4) \o Rep("2", 4) \o AAAB \o Rep("3", 4) \o Rep("b", 4)
    \o AAAB \o Rep("6", 4) \o Rep("7", 4) \o Rep("8", 4)
TestInput3 ==
    Rep("0", 4) \o Rep("1", 4) \o Rep("2", 4) \o AAAB \o Rep("3", 4) \o Rep("b", 4)
    \o Rep("4", 4) \o Rep("c", 4)
TestInput4 ==
    AAAB \o Rep("0", 4) \o Rep("1", 4) \o Rep("2", 4) \o Rep("3", 4) \o Rep("b", 4)
    \o Rep("4", 4) \o Rep("c", 4)
TestInput5 ==
    Rep("0", 4) \o Rep("1", 4) \o Rep("2", 4) \o Rep("3", 4) \o Rep("b", 4)
    \o Rep("4", 4) \o Rep("c", 4) \o AAAB
TestInputs == {TestInput1, TestInput2, TestInput3, TestInput4, TestInput5}

\* the outputs test() asserts for the third and the fifth
TestExpect3 == Rep("1", 4) \o Rep("2", 4) \o AAAB \o Rep("3", 4)
TestExpect5 == AAAB \o Rep("0", 4)

\* ----------------------------------------------------------------- state
VARIABLES
    buffer_num,          \* RingBuffer::_buffer_num
    buffer_size,         \* RingBuffer::_buffer_size
    targets,             \* Target::_targets
    buffer,              \* RingBuffer::_buffer, slot index -> buffer_size bytes
    buffer_print_flag,   \* RingBuffer::_buffer_print_flag, 0: not printed
    next_buffer_idx,     \* RingBuffer::_next_buffer_idx
    matched_buffer_idx,  \* RingBuffer::_matched_buffer_idx, -1: none
    stream,              \* StreamReader: the bytes of _stream not yet read
    eof,                 \* StreamReader: _stream->eof()
    os,                  \* StreamCollector: the bytes written to _stream so far
    pc,                  \* run(): "loop" while readFrom is called, "returned" after
    nread,               \* readFrom: nread of the latest call
    ret,                 \* readFrom: return value of the latest call
    buffer_idx,          \* readFrom: buffer_idx of the latest call
    probed,              \* readFrom: "none" if the latest call did not call
                         \* Target::match, else "true"/"false", its result
    input,               \* history: the whole input stream
    total_read,          \* readFrom: total_read, the reader->tell() of the latest
                         \* call, a uint64_t held as its two's complement value
    file,                \* FileReader: the bytes of _fd not yet read
    pos,                 \* FileReader::_pos, a uint64_t held as its two's
                         \* complement value (-1 is 2^64 - 1)
    calls,               \* history: number of read calls made
    matchCall,           \* history: number of the call that registered the
                         \* match tracked now or flushed last, 0 if none yet
    slotChunk,           \* history: slot -> number of the call whose chunk
                         \* (nread > 0) it holds, 0 if never written
    flushes              \* history: one record per collectTo call

vars == <<buffer_num, buffer_size, targets, buffer, buffer_print_flag,
          next_buffer_idx, matched_buffer_idx, stream, eof, os, pc, nread, ret,
          buffer_idx, probed, total_read, file, pos, input, calls, matchCall,
          slotChunk, flushes>>

Slots == 0..(buffer_num - 1)

\* ------------------------------------------------------------- operators
Min(x, y) == IF x < y THEN x ELSE y

\* memmem(3): whether needle[0, needlelen) occurs in haystack[0, haystacklen),
\* scanning the start offsets in order; an empty needle is found at offset 0
RECURSIVE memmemFrom(_, _, _, _, _)
memmemFrom(off, haystack, haystacklen, needle, needlelen) ==
    IF off + needlelen > haystacklen THEN FALSE
    ELSE IF \A j \in 1..needlelen : haystack[off + j] = needle[j] THEN TRUE
    ELSE memmemFrom(off + 1, haystack, haystacklen, needle, needlelen)

memmem(haystack, haystacklen, needle, needlelen) ==
    memmemFrom(0, haystack, haystacklen, needle, needlelen)

\* Target::match: the loop over _targets, leaving at the first hit
RECURSIVE matchFrom(_, _, _, _)
matchFrom(i, tgts, str, len) ==
    IF i > Len(tgts) THEN FALSE
    ELSE IF memmem(str, len, tgts[i], Len(tgts[i])) THEN TRUE
    ELSE matchFrom(i + 1, tgts, str, len)

\* a match that tests the first target only
match_first_only(tgts, str, len) ==
    Len(tgts) > 0 /\ memmem(str, len, tgts[1], Len(tgts[1]))

\* a match whose result starts out true when there is no target to test
match_empty_true(tgts, str, len) ==
    IF Len(tgts) = 0 THEN TRUE ELSE matchFrom(1, tgts, str, len)

\* a match over the whole slot instead of the bytes read
match_whole_slot(tgts, str, len) == matchFrom(1, tgts, str, Len(str))

match(tgts, str, len) == matchFrom(1, tgts, str, len)

\* StreamReader::read: -1 once eof is set; otherwise up to buffer_size bytes are
\* extracted, and eofbit is set when fewer than buffer_size were available
StreamRead(s, e, size) ==
    IF e THEN [n |-> -1, bytes |-> <<>>, rest |-> s, eof |-> TRUE]
    ELSE LET k == Min(size, Len(s)) IN
         [n |-> k, bytes |-> SubSeq(s, 1, k), rest |-> SubSeq(s, k + 1, Len(s)),
          eof |-> (k < size)]

\* StreamReader::tell: tellg() is the count of bytes extracted, and -1 once a
\* read fell short and set failbit along with eofbit
StreamReader_tell(whole, s, e) == IF e THEN -1 ELSE Len(whole) - Len(s)

\* read(2) on _fd: -1 on an error, else some bytes of those left, at most size,
\* and none only at the end of the file
SysRead(f, size) ==
    {[n |-> -1, bytes |-> <<>>, rest |-> f]}
    \cup {[n |-> k, bytes |-> SubSeq(f, 1, k), rest |-> SubSeq(f, k + 1, Len(f))] :
             k \in {j \in 0..Min(size, Len(f)) : j > 0 \/ Len(f) = 0}}

\* FileReader::tell
FileReader_tell == pos

\* a <= b for uint64_t values held as their two's complement values
ULeq(a, b) == IF (a >= 0) = (b >= 0) THEN a <= b ELSE a >= 0

\* a read that leaves the slot as long as what was read
Store_resize(slot, bytes) == bytes

\* the slot after read() stored bytes at its start; the rest keeps its old content
Store(slot, bytes) ==
    [i \in 1..Len(slot) |-> IF i <= Len(bytes) THEN bytes[i] ELSE slot[i]]

\* a write cursor that advances by two slots
nextIdx_skip(idx, num) == (idx + 2) % num

\* readFrom: _next_buffer_idx after buffer_idx = _next_buffer_idx++ and %=
nextIdx(idx, num) == (idx + 1) % num

\* a readFrom that marks the slot only when the read gave data
markRead_if_data(flag, idx, n) == IF n > 0 THEN [flag EXCEPT ![idx] = 0] ELSE flag

\* readFrom: _buffer_print_flag[buffer_idx] = 0, whatever nread is
markRead(flag, idx, n) == [flag EXCEPT ![idx] = 0]

\* a readFrom that flushes at the end of the stream whether a match is tracked or not
forcedFlush_always(matched) == TRUE

\* readFrom: whether the nread <= 0 branch calls collectTo
forcedFlush(matched) == matched >= 0

\* a readFrom that probes the new chunk also while a match is tracked
idle_always(matched) == TRUE

\* readFrom: whether Target::match is called (the left operand of &&)
idle(matched) == matched < 0

\* a window start at the matched slot itself, a full cycle after the match
flushStart_no_half(matched, num) == matched % num

\* a window start one slot too early
flushStart_one_short(matched, num) == (matched + num \div 2 + num - 1) % num

\* a window start one slot too far
flushStart_off_by_one(matched, num) == (matched + num \div 2 + 1) % num

\* readFrom: start = (_matched_buffer_idx + _buffer_num / 2) % _buffer_num
flushStart(matched, num) == (matched + num \div 2) % num

\* a readFrom that stops only on a negative read result
readFromResult_negative_only(n) == n >= 0

\* readFrom: the return value for a read result
readFromResult(n) == n > 0

\* collectTo: one of its two loops, for (i = lo; i < hi; ++i), as the sequence
\* of slots it passes to collect()
RECURSIVE collectRange(_, _, _)
collectRange(lo, hi, flag) ==
    IF lo >= hi THEN <<>>
    ELSE (IF flag[lo] = 0 THEN <<lo>> ELSE <<>>) \o collectRange(lo + 1, hi, flag)

\* a collectTo without its second loop
collectTo_no_wrap(start, num, flag) == collectRange(start, num, flag)

\* collectTo: the slots collected, in order
collectTo(start, num, flag) ==
    collectRange(start, num, flag) \o collectRange(0, start, flag)

Range(s) == {s[i] : i \in 1..Len(s)}

RECURSIVE Concat(_)
Concat(ss) == IF ss = <<>> THEN <<>> ELSE Head(ss) \o Concat(Tail(ss))

\* ------------------------------------------------------------------ Init
\* the state after run()/test() built Target, RingBuffer, reader and collector
Init ==
    /\ \/ /\ buffer_num \in 1..MaxN
          /\ buffer_size \in 1..MaxS
          /\ targets \in TargetLists
          /\ input \in Streams
       \/ /\ buffer_num = TestBufNum
          /\ buffer_size = TestBufSize
          /\ targets = TestTargets
          /\ input \in TestInputs
    /\ \E g \in Garbage : buffer = [i \in Slots |-> Rep(g, buffer_size)]
    /\ buffer_print_flag = [i \in Slots |-> 1]
    /\ next_buffer_idx = 0
    /\ matched_buffer_idx = -1
    /\ stream = input
    /\ eof = FALSE
    /\ os = <<>>
    /\ pc = "loop"
    /\ nread = 0
    /\ ret = TRUE
    /\ buffer_idx = 0
    /\ probed = "none"
    /\ total_read = 0
    /\ file = <<>>
    /\ pos = 0
    /\ calls = 0
    /\ matchCall = 0
    /\ slotChunk = [i \in Slots |-> 0]
    /\ flushes = <<>>

\* --------------------------------------------------------------- actions
\* one iteration of while (buffer.readFrom(&reader, &collector)) { }
readFrom ==
    /\ pc = "loop"
    /\ LET idx == next_buffer_idx
           nxt == nextIdx(next_buffer_idx, buffer_num)
           rd == StreamRead(stream, eof, buffer_size)
           n == rd.n
           buf1 == [buffer EXCEPT ![idx] = Store(@, rd.bytes)]
           flag1 == markRead(buffer_print_flag, idx, n)
           chunk1 == IF n > 0 THEN [slotChunk EXCEPT ![idx] = calls + 1]
                     ELSE slotChunk
           probe == n > 0 /\ idle(matched_buffer_idx)
           hit == probe /\ match(targets, buf1[idx], n)
           matched1 == IF hit THEN idx ELSE matched_buffer_idx
           start == flushStart(matched1, buffer_num)
           flush == IF n <= 0 THEN forcedFlush(matched_buffer_idx)
                    ELSE matched1 >= 0 /\ nxt = start
           since == IF hit THEN calls + 1 ELSE matchCall
           sent == IF flush THEN collectTo(start, buffer_num, flag1) ELSE <<>>
       IN
       /\ next_buffer_idx' = nxt
       /\ buffer' = buf1
       /\ stream' = rd.rest
       /\ eof' = rd.eof
       /\ nread' = n
       /\ buffer_idx' = idx
       /\ probed' = IF ~probe THEN "none" ELSE IF hit THEN "true" ELSE "false"
       /\ total_read' = StreamReader_tell(input, rd.rest, rd.eof)
       /\ calls' = calls + 1
       /\ matchCall' = since
       /\ slotChunk' = chunk1
       /\ buffer_print_flag' =
              [i \in Slots |-> IF i \in Range(sent) THEN 1 ELSE flag1[i]]
       /\ os' = os \o Concat([k \in 1..Len(sent) |-> buf1[sent[k]]])
       /\ matched_buffer_idx' = IF flush THEN -1 ELSE matched1
       /\ flushes' =
              IF flush
              THEN Append(flushes,
                          [call |-> calls + 1, since |-> since, forced |-> (n <= 0),
                           matched |-> matched1, start |-> start,
                           flag |-> flag1, chunk |-> chunk1, slots |-> sent,
                           bytes |-> Len(os') - Len(os)])
              ELSE flushes
       /\ ret' = readFromResult(n)
       /\ pc' = IF readFromResult(n) THEN "loop" ELSE "returned"
    /\ UNCHANGED <<buffer_num, buffer_size, targets, input, file, pos>>

Next == readFrom

Spec == Init /\ [][Next]_vars

\* a FileReader on a file of at most MaxLen bytes, read into a buffer of
\* buffer_size bytes; no RingBuffer scan runs
FileInit ==
    /\ buffer_num = 1
    /\ buffer_size \in 1..MaxS
    /\ targets = <<>>
    /\ input = <<>>
    /\ buffer = [i \in Slots |-> Rep("?", buffer_size)]
    /\ buffer_print_flag = [i \in Slots |-> 1]
    /\ next_buffer_idx = 0
    /\ matched_buffer_idx = -1
    /\ stream = <<>>
    /\ eof = FALSE
    /\ os = <<>>
    /\ pc = "loop"
    /\ nread = 0
    /\ ret = TRUE
    /\ buffer_idx = 0
    /\ probed = "none"
    /\ total_read = 0
    /\ file \in {Rep("a", k) : k \in 0..MaxLen}
    /\ pos = 0
    /\ calls = 0
    /\ matchCall = 0
    /\ slotChunk = [i \in Slots |-> 0]
    /\ flushes = <<>>

\* FileReader::read: nread = ::read(_fd, buffer, buffer_size); _pos += nread
FileReader_read ==
    /\ calls < MaxFileReads
    /\ \E rd \in SysRead(file, buffer_size) :
           /\ buffer' = [buffer EXCEPT ![0] = Store(@, rd.bytes)]
           /\ file' = rd.rest
           /\ pos' = pos + rd.n
           /\ nread' = rd.n
    /\ calls' = calls + 1
    /\ UNCHANGED <<buffer_num, buffer_size, targets, buffer_print_flag,
                   next_buffer_idx, matched_buffer_idx, stream, eof, os, pc, ret,
                   buffer_idx, probed, total_read, input, matchCall, slotChunk,
                   flushes>>

FileNext == FileReader_read

FileSpec == FileInit /\ [][FileNext]_vars

\* the initial states explored for termination
LiveInit == Init /\ buffer_num <= MaxLiveN /\ Len(input) <= MaxLiveLen

\* run()'s loop keeps calling readFrom until it returns false
LiveSpec == LiveInit /\ [][Next]_vars /\ WF_vars(readFrom)

\* ---------------------------------------------------------------- claims
Done == pc = "returned"

LastFlush == flushes[Len(flushes)]

\* the chunk numbers a flush sent, in the order sent
FlushChunks(f) == [k \in 1..Len(f.slots) |-> f.chunk[f.slots[k]]]

\* every collect() call so far as <<slot, chunk number>>, in order
AllSent ==
    Concat([i \in 1..Len(flushes) |->
              [k \in 1..Len(flushes[i].slots) |->
                 <<flushes[i].slots[k], flushes[i].chunk[flushes[i].slots[k]]>>]])

\* C1: no slot content is sent to the sink twice: two collect() calls never send
\* the same slot holding the same chunk (no chunk with n > 0 written in between).
C1_NoDuplicateBytes ==
    \A i, j \in 1..Len(AllSent) : i < j => AllSent[i] # AllSent[j]

\* C2: every slot sent to the sink has received a chunk with n > 0 bytes before.
C2_OnlyWrittenSlotsSent ==
    \A i \in 1..Len(flushes) :
        \A k \in 1..Len(flushes[i].slots) : flushes[i].chunk[flushes[i].slots[k]] > 0

\* a flush none of whose slots was already flushed by an earlier window
NoOverlap(f) == \A i \in Slots : ~(f.flag[i] = 1 /\ f.chunk[i] > 0)

\* a flush at whose start all buffer_num slots are pending
AllPending(f) == \A i \in Slots : f.flag[i] = 0

\* C3 as stated: a flush without overlap sends exactly N slots (N*S bytes), the
\* matched slot at position N/2 (from 0) of the sequence sent.
C3_WindowAsStated ==
    \A i \in 1..Len(flushes) :
        NoOverlap(flushes[i]) =>
            /\ Len(flushes[i].slots) = buffer_num
            /\ flushes[i].bytes = buffer_num * buffer_size
            /\ flushes[i].slots[buffer_num \div 2 + 1] = flushes[i].matched

\* C3 amended: a flush at whose start all N slots are pending sends exactly N
\* slots (N*S bytes), the matched slot at position (N - N/2) mod N (from 0).
C3_WindowAllPending ==
    \A i \in 1..Len(flushes) :
        AllPending(flushes[i]) =>
            /\ Len(flushes[i].slots) = buffer_num
            /\ flushes[i].bytes = buffer_num * buffer_size
            /\ flushes[i].slots[((buffer_num - buffer_num \div 2) % buffer_num) + 1]
                   = flushes[i].matched

\* a readiness flush of a full window in a ring of odd size >= 3
C3_Witness ==
    /\ flushes # <<>>
    /\ AllPending(LastFlush)
    /\ ~LastFlush.forced
    /\ buffer_num >= 3
    /\ buffer_num % 2 = 1

C5_SingleActiveMatch ==
    [][matched_buffer_idx >= 0 =>
          \/ matched_buffer_idx' = matched_buffer_idx /\ flushes' = flushes
          \/ /\ matched_buffer_idx' = -1
             /\ Len(flushes') = Len(flushes) + 1
             /\ flushes'[Len(flushes')].matched = matched_buffer_idx
             /\ flushes'[Len(flushes')].start =
                    (matched_buffer_idx + buffer_num \div 2) % buffer_num]_vars

\* a match is still tracked after a later chunk that contains a target was read
C5_Witness ==
    /\ matched_buffer_idx >= 0
    /\ buffer_idx # matched_buffer_idx
    /\ nread > 0
    /\ probed = "none"
    /\ \E t \in Range(targets) :
           \E o \in 0..(nread - Len(t)) :
               SubSeq(buffer[buffer_idx], o + 1, o + Len(t)) = t

\* C6: every flush sends its slots in the order in which their chunks were read.
C6_ChronologicalFlush ==
    \A i \in 1..Len(flushes) :
        \A j, k \in 1..Len(flushes[i].slots) :
            j < k => FlushChunks(flushes[i])[j] < FlushChunks(flushes[i])[k]

\* some target is a contiguous subsequence of the first nread bytes of the slot
\* the latest call read into
TargetOccurs ==
    \E t \in Range(targets) :
        \E o \in 0..(nread - Len(t)) :
            SubSeq(buffer[buffer_idx], o + 1, o + Len(t)) = t

\* C7: Target::match returns true iff some target occurs as a contiguous
\* subsequence of str[0, len) (hence false without targets), and the target
\* list is left as it was.
C7_MatchIffOccurs ==
    /\ [](probed # "none" => ((probed = "true") <=> TargetOccurs))
    /\ [][targets' = targets]_vars

\* match returned true on its second target, the first one not occurring
C7_Witness ==
    /\ probed = "true"
    /\ Len(targets) = 2
    /\ ~memmem(buffer[buffer_idx], nread, targets[1], Len(targets[1]))

\* C8: without targets a scan writes nothing to the sink and tracks no match.
C8_NoTargetsNoOutput ==
    targets = <<>> => (os = <<>> /\ matched_buffer_idx = -1 /\ flushes = <<>>)

\* a scan of at least three chunks without targets has ended
C8_Witness == targets = <<>> /\ Done /\ calls >= 4 /\ probed = "none"

\* C9: readFrom returns false exactly when its read gave n <= 0; the loop of
\* run() ends, and when it has ended no match is tracked any more.
C9_ReturnAndTerminate ==
    /\ [][ret' = (nread' > 0)]_vars
    /\ [](Done <=> ~ret)
    /\ [](Done => (nread <= 0 /\ matched_buffer_idx = -1))
    /\ <>Done

\* the loop has ended by a call that flushed the window still tracked
C9_Witness ==
    /\ Done
    /\ flushes # <<>>
    /\ LastFlush.forced
    /\ LastFlush.call = calls
    /\ calls >= 3

\* C10: the fifth input of test(), whose only match is in the last chunk, gives
\* the output test() asserts, "aaab0000".
C10_LastChunkTestOutput ==
    (Done /\ input = TestInput5 /\ buffer_num = TestBufNum
          /\ buffer_size = TestBufSize /\ targets = TestTargets)
        => os = TestExpect5

\* C11: the ring keeps exactly buffer_num slots of buffer_size bytes and
\* buffer_num flags through every readFrom and collectTo, whatever the input
\* length; buffer_num and buffer_size never change.
C11_BoundedStaticMemory ==
    /\ [](/\ DOMAIN buffer = Slots
          /\ DOMAIN buffer_print_flag = Slots
          /\ \A i \in Slots : /\ DOMAIN buffer[i] = 1..buffer_size
                              /\ buffer_print_flag[i] \in {0, 1})
    /\ [][buffer_num' = buffer_num /\ buffer_size' = buffer_size]_vars

\* a scan that wrapped around the ring, flushed, and read a short last chunk
C11_Witness ==
    /\ Done
    /\ calls > buffer_num + 1
    /\ flushes # <<>>
    /\ Len(input) % buffer_size # 0

\* C12: the position a reader reports (FileReader::tell, StreamReader::tell)
\* never decreases across read calls, whatever those reads return.
C12_PositionMonotone ==
    [][/\ ULeq(FileReader_tell, FileReader_tell')
       /\ ULeq(StreamReader_tell(input, stream, eof),
               StreamReader_tell(input, stream', eof'))
       /\ ULeq(total_read, total_read')]_vars

\* the slots from flushStart = (m + N/2) mod N up to the slot before m
Leading(m) ==
    {(m + buffer_num \div 2 + k) % buffer_num :
        k \in 0..(buffer_num - buffer_num \div 2 - 1)} \ {m}

\* the slots after m up to flushStart - 1
Trailing(m) == {(m + k) % buffer_num : k \in 1..(buffer_num \div 2 - 1)}

\* C13: from the call that registers a match in slot m to the readiness flush of
\* its window no leading slot is written, and at that flush every trailing slot
\* holds a chunk read after the match.
C13_ContextPreserved ==
    /\ matched_buffer_idx >= 0 =>
           /\ slotChunk[matched_buffer_idx] = matchCall
           /\ \A i \in Leading(matched_buffer_idx) : slotChunk[i] < matchCall
    /\ \A j \in 1..Len(flushes) :
           ~flushes[j].forced =>
               /\ flushes[j].chunk[flushes[j].matched] = flushes[j].since
               /\ \A i \in Leading(flushes[j].matched) :
                      flushes[j].chunk[i] < flushes[j].since
               /\ \A i \in Trailing(flushes[j].matched) :
                      flushes[j].chunk[i] > flushes[j].since

\* a readiness flush in a ring of at least 4 slots, all leading slots written
C13_Witness ==
    /\ flushes # <<>>
    /\ ~LastFlush.forced
    /\ buffer_num >= 4
    /\ \A i \in Leading(LastFlush.matched) : LastFlush.chunk[i] > 0

\* C14 as stated: at every readiness flush each of the N slots holds a chunk
\* written since the match was registered (the matching call included).
C14_FullCycleAsStated ==
    \A j \in 1..Len(flushes) :
        ~flushes[j].forced =>
            \A i \in Slots : flushes[j].chunk[i] >= flushes[j].since

\* C14 amended: at every readiness flush the slots written since the match was
\* registered are the matched slot and the N/2 - 1 slots after it, written by
\* the max(1, N/2) calls from the matching call to the flushing call.
C14_HalfCycle ==
    \A j \in 1..Len(flushes) :
        ~flushes[j].forced =>
            /\ {i \in Slots : flushes[j].chunk[i] >= flushes[j].since} =
                   {flushes[j].matched} \cup Trailing(flushes[j].matched)
            /\ flushes[j].call - flushes[j].since + 1 =
                   (IF buffer_num \div 2 > 1 THEN buffer_num \div 2 ELSE 1)

\* a readiness flush of a ring of at least 4 slots that were all written
C14_Witness ==
    /\ flushes # <<>>
    /\ ~LastFlush.forced
    /\ buffer_num >= 4
    /\ \A i \in Slots : LastFlush.chunk[i] > 0
    /\ \E i \in Slots : LastFlush.chunk[i] < LastFlush.since

\* whether the step made is a readFrom call that called collectTo
Flushed == Len(flushes') = Len(flushes) + 1

\* C15: right after a flush no slot is pending (every flag is 1); a flag goes
\* from 1 to 0 only for the slot the call reads into, and the call clears that
\* flag whatever nread is, so the slot is pending after every call without flush.
C15_PendingFlagLifecycle ==
    [][/\ calls' = calls + 1
       /\ Flushed => \A i \in Slots : buffer_print_flag'[i] = 1
       /\ \A i \in Slots :
              (buffer_print_flag[i] = 1 /\ buffer_print_flag'[i] = 0)
                  => i = next_buffer_idx
       /\ ~Flushed =>
              /\ buffer_print_flag'[next_buffer_idx] = 0
              /\ \A i \in Slots \ {next_buffer_idx} :
                     buffer_print_flag'[i] = buffer_print_flag[i]]_vars

\* the loop ended idle: the exhausted read left its slot marked pending
C15_Witness ==
    /\ Done
    /\ nread <= 0
    /\ flushes # <<>>
    /\ LastFlush.call < calls
    /\ buffer_print_flag[buffer_idx] = 0
    /\ slotChunk[buffer_idx] > 0

\* C16: the write cursor stays in 0..N-1, and every call, the exhausted one
\* included, reads into the slot at the old cursor, changes no other slot, and
\* moves the cursor on by one modulo N.
C16_WriteCursor ==
    /\ [](next_buffer_idx \in Slots)
    /\ [][/\ buffer_idx' = next_buffer_idx
          /\ next_buffer_idx' = (next_buffer_idx + 1) % buffer_num
          /\ \A i \in Slots \ {next_buffer_idx} : buffer'[i] = buffer[i]
          /\ nread' > 0 =>
                 /\ slotChunk'[next_buffer_idx] = calls'
                 /\ SubSeq(buffer'[next_buffer_idx], 1, nread') =
                        SubSeq(stream, 1, nread')]_vars

\* the exhausted call wrapped the cursor from the last slot to slot 0
C16_Witness ==
    /\ Done
    /\ buffer_num >= 2
    /\ buffer_idx = buffer_num - 1
    /\ next_buffer_idx = 0
    /\ calls > buffer_num

\* C17: a tracked match is flushed by the first call that leaves the cursor at
\* (m + N/2) mod N, or by the exhausted call if that comes first: no state
\* between calls has the cursor at the window start with the match still
\* tracked, at most N/2 calls are made while a match is tracked, the calls from
\* the matching to the flushing one are at most max(1, N/2), and for N <= 3 the
\* matching call flushes.
C17_BoundedResponse ==
    /\ matched_buffer_idx >= 0 =>
           /\ next_buffer_idx # (matched_buffer_idx + buffer_num \div 2) % buffer_num
           /\ calls - matchCall <= buffer_num \div 2 - 2
           /\ pc = "loop"
    /\ \A j \in 1..Len(flushes) :
           /\ flushes[j].call - flushes[j].since <= buffer_num \div 2
           /\ flushes[j].call - flushes[j].since + 1 <=
                  (IF buffer_num \div 2 > 1 THEN buffer_num \div 2 ELSE 1)
           /\ ~flushes[j].forced =>
                  /\ (flushes[j].call - flushes[j].since + flushes[j].matched + 1)
                         % buffer_num = flushes[j].start
                  /\ flushes[j].start =
                         (flushes[j].matched + buffer_num \div 2) % buffer_num
                  /\ flushes[j].call - flushes[j].since < buffer_num
           /\ buffer_num <= 3 =>
                  (flushes[j].call = flushes[j].since /\ ~flushes[j].forced)

\* a readiness flush two calls after the matching call, in a ring of 6 slots
C17_Witness ==
    /\ flushes # <<>>
    /\ ~LastFlush.forced
    /\ buffer_num >= 6
    /\ LastFlush.call = LastFlush.since + 2

\* whether a chunk contains a target as a contiguous subsequence
ChunkHasTarget(chunk) ==
    \E t \in Range(targets) :
        \E o \in 0..(Len(chunk) - Len(t)) : SubSeq(chunk, o + 1, o + Len(t)) = t

\* the chunk the next call reads, the first nread' bytes of the stream
ChunkRead == SubSeq(stream, 1, nread')

\* C18: a call made while no match is tracked, whose chunk contains no target
\* (or whose read gave n <= 0), writes nothing to the sink and leaves no match
\* tracked; the sink is written only in calls in which a match is tracked; the
\* third input of test() is flushed once, by readiness, and not at exhaustion.
C18_IdleCallsWriteNothing ==
    /\ [][(matched_buffer_idx < 0 /\ ~(nread' > 0 /\ ChunkHasTarget(ChunkRead)))
              => (os' = os /\ flushes' = flushes /\ matched_buffer_idx' = -1)]_vars
    /\ [][os' # os =>
              /\ Flushed
              /\ matched_buffer_idx >= 0 \/ matchCall' = calls']_vars
    /\ []((Done /\ input = TestInput3 /\ buffer_num = TestBufNum
                /\ buffer_size = TestBufSize /\ targets = TestTargets)
              => (os = TestExpect3 /\ Len(flushes) = 1 /\ ~flushes[1].forced))

\* the loop ended idle, on an exhausted read, after a readiness flush, with
\* slots written since that flush still pending
C18_Witness ==
    /\ Done
    /\ flushes # <<>>
    /\ ~LastFlush.forced
    /\ \E i \in Slots : buffer_print_flag[i] = 0 /\ slotChunk[i] > LastFlush.call

\* the chunks the input is read in: buffer_size bytes each, the last one shorter
InputChunks ==
    {SubSeq(input, (k - 1) * buffer_size + 1, Min(k * buffer_size, Len(input))) :
        k \in 1..((Len(input) + buffer_size - 1) \div buffer_size)}

\* C19: a match is registered only by a call whose own chunk, the n bytes just
\* read, contains a target; when targets occur in the input only across chunk
\* boundaries no match is ever tracked and nothing is written.
C19_NoStraddlingMatch ==
    /\ [][(matched_buffer_idx < 0 /\ (matched_buffer_idx' >= 0 \/ Flushed))
              => (nread' > 0 /\ ChunkHasTarget(ChunkRead))]_vars
    /\ []((\A c \in InputChunks : ~ChunkHasTarget(c))
              => (os = <<>> /\ flushes = <<>> /\ matched_buffer_idx = -1))

\* a scan has ended without output though a target occurs in the input, across
\* a chunk boundary
C19_Witness ==
    /\ Done
    /\ os = <<>>
    /\ ChunkHasTarget(input)
    /\ \A c \in InputChunks : ~ChunkHasTarget(c)

====
